---------------------------- MODULE Spec2Model ----------------------------
(***************************************************************************)
(* Button (src/Button.h) and StateToggleTimer (src/StateToggleTimer.h).    *)
(*                                                                         *)
(* Button: onInterrupt() is the pin-change interrupt handler; it runs      *)
(* atomically and may preempt the polling context between any two          *)
(* statements of Reset(), WasPressed() and WasLongPressed().  The polling  *)
(* context is one thread, its position is pc.                              *)
(* StateToggleTimer: single threaded, every method is one step.            *)
(***************************************************************************)
EXTENDS Integers, FiniteSets, Sequences, TLC

\* ------------------------------------------------------------------------
\* Program constants
\* ------------------------------------------------------------------------
LOW == FALSE
HIGH == TRUE
bIsPressed == LOW
debounceDelay == 50
longPressDelay == 1000
\* unsigned long arithmetic is modulo 2^w.  The targets have w = 32; TLC's
\* integers are 32 bit signed, so the model keeps w = 30, the widest for
\* which a - b + 2^w is still representable.
ULongMod == 1073741824

\* ------------------------------------------------------------------------
\* Bounds of the model
\* ------------------------------------------------------------------------
MaxTicks == 3
MaxEdges == 4
\* clock advances between two steps, in ms
TickDeltas == {50, 51, 1000, 1001}
\* value of millis() when the objects are constructed
StartTimes == {0, ULongMod - 101}
\* durations a StateToggleTimer is given
Durations == {0, 50, ULongMod - 1}

VARIABLES
  millis,               \* the millisecond clock register (unsigned long)
  uptime,               \* ghost: true ms since construction
  ticks,                \* ghost: number of clock advances
  edges,                \* ghost: number of pin edges
  pin,                  \* level of the input pin
  lastStateChangeTime, lastState,
  m_bIsPressed, m_bWasPressed, m_bWasLongPressed, m_bReset,
  pc,                   \* position of the polling context
  op, ret,              \* last completed operation and what it returned
  pinFell,              \* ghost: uptime at which the pin last went LOW
  longGenuine,          \* ghost: pin was LOW > longPressDelay before the
                        \*        release that last set the long latch
  nRelease, nLongRelease,         \* ghost: accepted releases (all / long)
  nWasPressedTrue, nWasLongTrue,  \* ghost: accessor calls that returned true
  phase,                \* ghost: reads of WasPressed since a latched release
  sinceReset,           \* ghost: Reset() returned, no accepted change since
  armed,                \* ghost: Reset() called, no accepted change since
  acceptedAt,           \* ghost: uptime of the last accepted change
  pinRose,              \* ghost: uptime at which the pin last went HIGH
  call,                 \* ghost: the accessor call in progress: the flags at
                        \*        its invocation, the level changes accepted
                        \*        since (n, saturating at 2) and the last one
  m_bIsOn, m_bPreviousState, m_bHasStarted, m_duration, m_timer,
  lastSeenOn,           \* ghost: IsOn() at the last HasStateChanged() call
  startedAt,            \* ghost: millis() at the last Start(), -1 once the
                        \*        timer flipped or stopped
  timerSetAt            \* ghost: uptime at which m_timer was read from the
                        \*        clock, -1 if it is not a clock reading

clockVars == <<millis, uptime, ticks>>
codeVars == <<lastStateChangeTime, lastState, m_bIsPressed, m_bWasPressed,
              m_bWasLongPressed, m_bReset>>
ghostVars == <<pinFell, longGenuine, nRelease, nLongRelease,
               nWasPressedTrue, nWasLongTrue, phase, sinceReset, armed,
               acceptedAt, pinRose>>
buttonVars == <<edges, pin, codeVars, pc, ghostVars, call>>
timerGhostVars == <<lastSeenOn, startedAt, timerSetAt>>
timerVars == <<m_bIsOn, m_bPreviousState, m_bHasStarted, m_duration, m_timer,
               timerGhostVars>>
vars == <<clockVars, buttonVars, op, ret, timerVars>>

\* the flags of a Button as a record
Flags(isPressed, was, long, reset) ==
  [isPressed |-> isPressed, was |-> was, long |-> long, reset |-> reset]

\* no accessor call in progress
NoCall == [snap |-> Flags(FALSE, FALSE, FALSE, FALSE), n |-> 0,
           level |-> FALSE, t |-> 0]

\* mutant: the difference taken without the wraparound of unsigned long
USub_NoWrap(a, b) == a - b

\* now - past on unsigned long
USub(a, b) == (a - b + ULongMod) % ULongMod

\* ------------------------------------------------------------------------
\* Button
\* ------------------------------------------------------------------------
\* Button::Button; m_bReset is not assigned by the constructor
ButtonInit ==
  /\ lastStateChangeTime = millis
  /\ lastState = (~bIsPressed)
  /\ m_bIsPressed = FALSE
  /\ m_bWasPressed = FALSE
  /\ m_bWasLongPressed = FALSE
  /\ m_bReset \in BOOLEAN
  /\ pin \in {LOW, HIGH}
  /\ pc = "idle"
  /\ edges = 0
  /\ pinFell = 0
  /\ longGenuine = FALSE
  /\ nRelease = 0 /\ nLongRelease = 0
  /\ nWasPressedTrue = 0 /\ nWasLongTrue = 0
  /\ phase = "none"
  /\ sinceReset = FALSE
  /\ armed = FALSE
  /\ acceptedAt = 0
  /\ pinRose = 0
  /\ call = NoCall

\* mutant: the debounce comparison made inclusive
DebouncePassed_AtLeast(t) == t >= debounceDelay

\* if (timeSinceLastStateChange > debounceDelay)
DebouncePassed(t) == t > debounceDelay

\* mutant: the level comparison dropped
StateChanged_Always(currentState, last) == TRUE

\* if (currentState != lastState)
StateChanged(currentState, last) == currentState # last

\* m_bIsPressed = (currentState == bIsPressed)
PressedLevel(currentState) == (currentState = bIsPressed)

\* mutant: the long-press comparison made inclusive
LongPress_AtLeast(t) == t >= longPressDelay

\* if (timeSinceLastStateChange > longPressDelay)
LongPress(t) == t > longPressDelay

\* mutant: the press branch latches m_bWasPressed as well
Classify_LatchOnPress(currentState, t, was) ==
  [isPressed |-> PressedLevel(currentState), was |-> TRUE,
   long |-> (currentState # bIsPressed /\ LongPress(t))]

\* mutant: the long press is classified whatever the level
Classify_LongOnPress(currentState, t, was) ==
  [isPressed |-> PressedLevel(currentState),
   was |-> IF currentState # bIsPressed THEN TRUE ELSE was,
   long |-> LongPress(t)]

\* the press/release classification of an accepted change
Classify(currentState, t, was) ==
  IF currentState # bIsPressed
    THEN [isPressed |-> PressedLevel(currentState), was |-> TRUE,
          long |-> LongPress(t)]
    ELSE [isPressed |-> PressedLevel(currentState), was |-> was,
          long |-> FALSE]

\* mutant: the pending reset clears what Reset() clears, not the long latch
ApplyReset_KeepLong(f, reset) ==
  IF reset THEN [isPressed |-> FALSE, was |-> FALSE, long |-> f.long]
           ELSE f

\* if (m_bReset) { ... }
ApplyReset(f, reset) ==
  IF reset THEN [isPressed |-> FALSE, was |-> FALSE, long |-> FALSE]
           ELSE f

\* does this invocation accept a level change?
Accepts(now, currentState) ==
  /\ DebouncePassed(USub(now, lastStateChangeTime))
  /\ StateChanged(currentState, lastState)

\* Button::onInterrupt, with currentState the level digitalRead returns
onInterrupt(currentState) ==
  LET now == millis
      timeSinceLastStateChange == USub(now, lastStateChangeTime)
      f == ApplyReset(Classify(currentState, timeSinceLastStateChange,
                               m_bWasPressed), m_bReset)
  IN IF Accepts(now, currentState)
       THEN /\ lastStateChangeTime' = now
            /\ lastState' = currentState
            /\ m_bIsPressed' = f.isPressed
            /\ m_bWasPressed' = f.was
            /\ m_bWasLongPressed' = f.long
            /\ m_bReset' = FALSE
       ELSE UNCHANGED codeVars

\* A pin edge: the level toggles and the CHANGE interrupt runs the handler
PinEdge ==
  /\ edges < MaxEdges
  /\ edges' = edges + 1
  /\ pin' = ~pin
  /\ onInterrupt(pin')
  /\ LET t == USub(millis, lastStateChangeTime)
         accepted == Accepts(millis, pin')
         release == accepted /\ pin' # bIsPressed
     IN /\ op' = "onInterrupt"
        /\ ret' = accepted
        /\ pinFell' = IF pin' = LOW THEN uptime ELSE pinFell
        /\ longGenuine' = IF release /\ m_bWasLongPressed'
                            THEN uptime - pinFell > longPressDelay
                            ELSE longGenuine
        /\ nRelease' = IF release THEN nRelease + 1 ELSE nRelease
        /\ nLongRelease' = IF release /\ t > longPressDelay
                             THEN nLongRelease + 1 ELSE nLongRelease
        /\ phase' = IF release /\ ~m_bReset /\ pc \notin {"Reset_35", "Reset_36"}
                      THEN "fresh"
                      ELSE IF accepted /\ phase # "fresh" THEN "none" ELSE phase
        /\ sinceReset' = IF accepted THEN FALSE ELSE sinceReset
        /\ armed' = IF accepted THEN FALSE ELSE armed
        /\ acceptedAt' = IF accepted THEN uptime ELSE acceptedAt
        /\ pinRose' = IF pin' = HIGH THEN uptime ELSE pinRose
        /\ call' = IF accepted /\ pc # "idle"
                     THEN [call EXCEPT !.n = IF call.n < 2 THEN call.n + 1 ELSE 2,
                                       !.level = pin', !.t = t]
                     ELSE call
  /\ UNCHANGED <<clockVars, pc, nWasPressedTrue, nWasLongTrue, timerVars>>

\* the flags now, and the ghost of a call that starts now
CurrentFlags == Flags(m_bIsPressed, m_bWasPressed, m_bWasLongPressed, m_bReset)
CallStarts == [snap |-> CurrentFlags, n |-> 0, level |-> FALSE, t |-> 0]

\* the ghost of a call that returns now: the number of level changes
\* accepted inside it is kept until the next call
CallEnds == [NoCall EXCEPT !.n = call.n]

\* what a call leaves behind: the flags and the value it returned
Outcome(f, r) == [flags |-> f, ret |-> r]

\* the flags after onInterrupt() accepted a change to level, t ms after the
\* previous accepted change
IsrAccept(F, level, t) ==
  LET f == ApplyReset(Classify(level, t, F.was), F.reset)
  IN Flags(f.isPressed, f.was, f.long, FALSE)

\* the accessors, executed without preemption
AtomicReset(F) ==
  Outcome([F EXCEPT !.reset = TRUE, !.isPressed = FALSE, !.was = FALSE],
          FALSE)

AtomicWasPressed(F) ==
  IF F.was THEN Outcome([F EXCEPT !.was = FALSE], TRUE)
           ELSE Outcome(F, FALSE)

AtomicWasLongPressed(F) ==
  IF F.long THEN Outcome([F EXCEPT !.long = FALSE], TRUE)
            ELSE Outcome(F, FALSE)

\* the accessor that returns from the statement at position p, atomically
Atomic(p, F) ==
  IF p = "Reset_36" THEN AtomicReset(F)
  ELSE IF p = "WasPressed_45" THEN AtomicWasPressed(F)
  ELSE AtomicWasLongPressed(F)

\* the outcomes of the call c returning from position p, with its accepted
\* change (if any) ordered before or after the atomic accessor
Linearizations(p, c) ==
  IF c.n = 0
    THEN {Atomic(p, c.snap)}
    ELSE {Atomic(p, IsrAccept(c.snap, c.level, c.t)),
          LET o == Atomic(p, c.snap)
          IN Outcome(IsrAccept(o.flags, c.level, c.t), o.ret)}

\* Button::Reset, statement by statement
Reset_34 ==
  /\ pc = "idle"
  /\ m_bReset' = TRUE
  /\ pc' = "Reset_35"
  /\ phase' = "none"
  /\ armed' = TRUE
  /\ call' = CallStarts
  /\ op' = "Reset_34" /\ ret' = FALSE
  /\ UNCHANGED <<clockVars, edges, pin, lastStateChangeTime, lastState,
                 m_bIsPressed, m_bWasPressed, m_bWasLongPressed,
                 pinFell, longGenuine, nRelease, nLongRelease,
                 nWasPressedTrue, nWasLongTrue, sinceReset, acceptedAt,
                 pinRose, timerVars>>

Reset_35 ==
  /\ pc = "Reset_35"
  /\ m_bIsPressed' = FALSE
  /\ pc' = "Reset_36"
  /\ op' = "Reset_35" /\ ret' = FALSE
  /\ call' = call
  /\ UNCHANGED <<clockVars, edges, pin, lastStateChangeTime, lastState,
                 m_bWasPressed, m_bWasLongPressed, m_bReset,
                 ghostVars, timerVars>>

Reset_36 ==
  /\ pc = "Reset_36"
  /\ m_bWasPressed' = FALSE
  /\ pc' = "idle"
  /\ sinceReset' = TRUE
  /\ call' = CallEnds
  /\ op' = "Reset" /\ ret' = FALSE
  /\ UNCHANGED <<clockVars, edges, pin, lastStateChangeTime, lastState,
                 m_bIsPressed, m_bWasLongPressed, m_bReset,
                 pinFell, longGenuine, nRelease, nLongRelease,
                 nWasPressedTrue, nWasLongTrue, phase, armed, acceptedAt,
                 pinRose, timerVars>>

\* Button::IsPressed
IsPressed ==
  /\ pc = "idle"
  /\ op' = "IsPressed" /\ ret' = m_bIsPressed
  /\ UNCHANGED <<clockVars, buttonVars, timerVars>>

\* a WasPressed() call returned: first read after a latched release, second
\* read, neither
NextPhase == IF phase = "fresh" THEN "read"
             ELSE IF phase = "read" THEN "done" ELSE "none"

\* Button::WasPressed: if (m_bWasPressed) ... return false
WasPressed_43 ==
  /\ pc = "idle"
  /\ IF m_bWasPressed
       THEN /\ pc' = "WasPressed_45"
            /\ op' = "WasPressed_43" /\ ret' = FALSE
            /\ phase' = phase
            /\ call' = CallStarts
       ELSE /\ pc' = "idle"
            /\ op' = "WasPressed" /\ ret' = FALSE
            /\ phase' = NextPhase
            /\ call' = NoCall
  /\ UNCHANGED <<clockVars, edges, pin, codeVars,
                 pinFell, longGenuine, nRelease, nLongRelease,
                 nWasPressedTrue, nWasLongTrue, sinceReset, armed, acceptedAt,
                 pinRose, timerVars>>

\* mutant: WasPressed() returns true without clearing the latch
WasPressed_45_KeepLatch ==
  /\ pc = "WasPressed_45"
  /\ pc' = "idle"
  /\ op' = "WasPressed" /\ ret' = TRUE
  /\ call' = CallEnds
  /\ nWasPressedTrue' = nWasPressedTrue + 1
  /\ phase' = NextPhase
  /\ UNCHANGED <<clockVars, edges, pin, codeVars,
                 pinFell, longGenuine, nRelease, nLongRelease,
                 nWasLongTrue, sinceReset, armed, acceptedAt, pinRose,
                 timerVars>>

\* m_bWasPressed = false; return true
WasPressed_45 ==
  /\ pc = "WasPressed_45"
  /\ m_bWasPressed' = FALSE
  /\ pc' = "idle"
  /\ op' = "WasPressed" /\ ret' = TRUE
  /\ call' = CallEnds
  /\ nWasPressedTrue' = nWasPressedTrue + 1
  /\ phase' = NextPhase
  /\ UNCHANGED <<clockVars, edges, pin, lastStateChangeTime, lastState,
                 m_bIsPressed, m_bWasLongPressed, m_bReset,
                 pinFell, longGenuine, nRelease, nLongRelease,
                 nWasLongTrue, sinceReset, armed, acceptedAt, pinRose,
                 timerVars>>

\* Button::WasLongPressed: if (m_bWasLongPressed) ... return false
WasLongPressed_54 ==
  /\ pc = "idle"
  /\ IF m_bWasLongPressed
       THEN /\ pc' = "WasLongPressed_56"
            /\ op' = "WasLongPressed_54" /\ ret' = FALSE
            /\ call' = CallStarts
       ELSE /\ pc' = "idle"
            /\ op' = "WasLongPressed" /\ ret' = FALSE
            /\ call' = NoCall
  /\ UNCHANGED <<clockVars, edges, pin, codeVars, ghostVars, timerVars>>

\* mutant: WasLongPressed() returns true without clearing the latch
WasLongPressed_56_KeepLatch ==
  /\ pc = "WasLongPressed_56"
  /\ m_bWasLongPressed' = m_bWasLongPressed
  /\ pc' = "idle"
  /\ op' = "WasLongPressed" /\ ret' = TRUE
  /\ call' = CallEnds
  /\ nWasLongTrue' = nWasLongTrue + 1
  /\ UNCHANGED <<clockVars, edges, pin, lastStateChangeTime, lastState,
                 m_bIsPressed, m_bWasPressed, m_bReset,
                 pinFell, longGenuine, nRelease, nLongRelease,
                 nWasPressedTrue, phase, sinceReset, armed, acceptedAt,
                 pinRose, timerVars>>

\* m_bWasLongPressed = false; return true
WasLongPressed_56 ==
  /\ pc = "WasLongPressed_56"
  /\ m_bWasLongPressed' = FALSE
  /\ pc' = "idle"
  /\ op' = "WasLongPressed" /\ ret' = TRUE
  /\ call' = CallEnds
  /\ nWasLongTrue' = nWasLongTrue + 1
  /\ UNCHANGED <<clockVars, edges, pin, lastStateChangeTime, lastState,
                 m_bIsPressed, m_bWasPressed, m_bReset,
                 pinFell, longGenuine, nRelease, nLongRelease,
                 nWasPressedTrue, phase, sinceReset, armed, acceptedAt,
                 pinRose, timerVars>>

\* ------------------------------------------------------------------------
\* The clock
\* ------------------------------------------------------------------------
Tick ==
  /\ ticks < MaxTicks
  /\ \E d \in TickDeltas :
       /\ millis' = (millis + d) % ULongMod
       /\ uptime' = uptime + d
  /\ ticks' = ticks + 1
  /\ op' = "Tick" /\ ret' = FALSE
  /\ UNCHANGED <<buttonVars, timerVars>>

ClockInit ==
  /\ millis \in StartTimes
  /\ uptime = 0
  /\ ticks = 0
  /\ op = "init" /\ ret = FALSE

\* ------------------------------------------------------------------------
\* StateToggleTimer
\* ------------------------------------------------------------------------
\* StateToggleTimer::StateToggleTimer(duration)
TimerInit(duration) ==
  /\ m_bIsOn = FALSE
  /\ m_bPreviousState = FALSE
  /\ m_bHasStarted = FALSE
  /\ m_duration = duration
  /\ m_timer = millis
  /\ lastSeenOn = FALSE
  /\ startedAt = -1
  /\ timerSetAt = 0

\* inline bool IsOn() / HasStarted()
IsOn == m_bIsOn
HasStarted == m_bHasStarted

\* mutant: SetDuration() restarts the interval
SetDuration_Restart(duration) ==
  /\ m_duration' = duration
  /\ m_timer' = millis
  /\ op' = "SetDuration" /\ ret' = FALSE
  /\ UNCHANGED <<clockVars, buttonVars, m_bIsOn, m_bPreviousState,
                 m_bHasStarted, timerGhostVars>>

\* StateToggleTimer::SetDuration
SetDuration(duration) ==
  /\ m_duration' = duration
  /\ op' = "SetDuration" /\ ret' = FALSE
  /\ UNCHANGED <<clockVars, buttonVars, m_bIsOn, m_bPreviousState,
                 m_bHasStarted, m_timer, timerGhostVars>>

\* mutant: Start() without m_timer = millis()
Start_KeepTimer ==
  /\ m_bIsOn' = TRUE
  /\ m_bHasStarted' = TRUE
  /\ startedAt' = millis
  /\ op' = "Start" /\ ret' = FALSE
  /\ UNCHANGED <<clockVars, buttonVars, m_bPreviousState, m_duration, m_timer,
                 lastSeenOn, timerSetAt>>

\* StateToggleTimer::Start
Start ==
  /\ m_bIsOn' = TRUE
  /\ m_bHasStarted' = TRUE
  /\ m_timer' = millis
  /\ startedAt' = millis
  /\ timerSetAt' = uptime
  /\ op' = "Start" /\ ret' = FALSE
  /\ UNCHANGED <<clockVars, buttonVars, m_bPreviousState, m_duration,
                 lastSeenOn>>

\* StateToggleTimer::Stop
Stop ==
  /\ m_bIsOn' = TRUE
  /\ m_bHasStarted' = FALSE
  /\ startedAt' = -1
  /\ op' = "Stop" /\ ret' = FALSE
  /\ UNCHANGED <<clockVars, buttonVars, m_bPreviousState, m_duration, m_timer,
                 lastSeenOn, timerSetAt>>

\* mutant: the duration comparison made inclusive
DurationElapsed_AtLeast(now, timer, duration) == USub(now, timer) >= duration

\* mutant: the difference compared as a signed number
DurationElapsed_Signed(now, timer, duration) == now - timer > duration

\* if ((now - m_timer) > m_duration)
DurationElapsed(now, timer, duration) == USub(now, timer) > duration

\* mutant: Update() without its else branch
Update_NoElse(now) ==
  /\ IF m_bHasStarted /\ DurationElapsed(now, m_timer, m_duration)
       THEN /\ m_timer' = now
            /\ m_bIsOn' = ~m_bIsOn
            /\ startedAt' = -1
            /\ timerSetAt' = IF now = millis THEN uptime ELSE -1
       ELSE UNCHANGED <<m_timer, m_bIsOn, startedAt, timerSetAt>>
  /\ op' = "Update" /\ ret' = FALSE
  /\ UNCHANGED <<clockVars, buttonVars, m_bPreviousState, m_bHasStarted,
                 m_duration, lastSeenOn>>

\* StateToggleTimer::Update(now)
Update(now) ==
  /\ IF m_bHasStarted
       THEN IF DurationElapsed(now, m_timer, m_duration)
              THEN /\ m_timer' = now
                   /\ m_bIsOn' = ~m_bIsOn
                   /\ startedAt' = -1
                   /\ timerSetAt' = IF now = millis THEN uptime ELSE -1
              ELSE UNCHANGED <<m_timer, m_bIsOn, startedAt, timerSetAt>>
       ELSE /\ m_bIsOn' = TRUE
            /\ UNCHANGED <<m_timer, startedAt, timerSetAt>>
  /\ op' = "Update" /\ ret' = FALSE
  /\ UNCHANGED <<clockVars, buttonVars, m_bPreviousState, m_bHasStarted,
                 m_duration, lastSeenOn>>

\* mutant: HasStateChanged() without recording the state it compared
HasStateChanged_NoRecord ==
  /\ LET bChanged == ~(m_bPreviousState = m_bIsOn)
     IN op' = "HasStateChanged" /\ ret' = bChanged
  /\ lastSeenOn' = m_bIsOn
  /\ UNCHANGED <<clockVars, buttonVars, m_bIsOn, m_bPreviousState,
                 m_bHasStarted, m_duration, m_timer, startedAt, timerSetAt>>

\* StateToggleTimer::HasStateChanged
HasStateChanged ==
  /\ LET bChanged == ~(m_bPreviousState = m_bIsOn)
     IN /\ m_bPreviousState' = m_bIsOn
        /\ op' = "HasStateChanged" /\ ret' = bChanged
  /\ lastSeenOn' = m_bIsOn
  /\ UNCHANGED <<clockVars, buttonVars, m_bIsOn, m_bHasStarted, m_duration,
                 m_timer, startedAt, timerSetAt>>

\* values a caller passes as now: the clock, and arbitrary ones
NowArgs == {millis, 0, ULongMod - 1}

\* ------------------------------------------------------------------------
\* Specifications
\* ------------------------------------------------------------------------
\* the Button under interrupts and polling
Init == ClockInit /\ ButtonInit /\ TimerInit(50)

Next ==
  \/ Tick
  \/ PinEdge
  \/ Reset_34 \/ Reset_35 \/ Reset_36
  \/ IsPressed
  \/ WasPressed_43 \/ WasPressed_45
  \/ WasLongPressed_54 \/ WasLongPressed_56

Spec == Init /\ [][Next]_vars

\* the Button of a program that never calls Reset()
NoResetNext ==
  \/ Tick
  \/ PinEdge
  \/ IsPressed
  \/ WasPressed_43 \/ WasPressed_45
  \/ WasLongPressed_54 \/ WasLongPressed_56

NoResetSpec == Init /\ [][NoResetNext]_vars

\* the StateToggleTimer in its polling loop
TimerSpecInit ==
  /\ ClockInit
  /\ ButtonInit /\ m_bReset = FALSE /\ pin = HIGH
  /\ \E duration \in Durations : TimerInit(duration)

TimerNext ==
  \/ Tick
  \/ Start
  \/ Stop
  \/ \E duration \in Durations : SetDuration(duration)
  \/ \E now \in NowArgs : Update(now)
  \/ HasStateChanged

TimerSpec == TimerSpecInit /\ [][TimerNext]_vars

\* both objects on one clock: edges on the pin, and a polling loop that
\* starts the timer and passes millis() to Update()
WrapNext ==
  \/ Tick
  \/ PinEdge
  \/ Start
  \/ Update(millis)

WrapSpec == Init /\ [][WrapNext]_vars

\* the polling loop running forever: Start() once, then Update(millis())
\* in every iteration, the clock advancing between two iterations by at
\* most MaxGap and wrapping around; the true time is not tracked here
MaxGap == ULongMod \div 2
LiveDeltas == {ULongMod \div 4, MaxGap}
LiveDurations == {0, 50, ULongMod \div 4, ULongMod - 1}

LiveInit ==
  /\ ClockInit
  /\ ButtonInit /\ m_bReset = FALSE /\ pin = HIGH
  /\ \E duration \in LiveDurations : TimerInit(duration)

LiveTick ==
  /\ op # "Tick"
  /\ \E d \in LiveDeltas : millis' = (millis + d) % ULongMod
  /\ op' = "Tick" /\ ret' = FALSE
  /\ UNCHANGED <<uptime, ticks, buttonVars, timerVars>>

LiveStart == ~m_bHasStarted /\ Start

LiveUpdate == Update(millis)

LiveNext == LiveStart \/ LiveTick \/ LiveUpdate

LiveSpec ==
  /\ LiveInit /\ [][LiveNext]_vars
  /\ WF_vars(LiveStart) /\ WF_vars(LiveTick) /\ WF_vars(LiveUpdate)

TypeOK ==
  /\ millis \in 0..(ULongMod - 1)
  /\ lastStateChangeTime \in 0..(ULongMod - 1)
  /\ m_timer \in 0..(ULongMod - 1)
  /\ pc \in {"idle", "Reset_35", "Reset_36", "WasPressed_45", "WasLongPressed_56"}

\* ------------------------------------------------------------------------
\* Properties
\* ------------------------------------------------------------------------
\* this step is an invocation of onInterrupt()
InterruptRan == edges' = edges + 1
\* the invocation read the level pin' and accepted it as a level change
AcceptedChange == InterruptRan /\ lastState' # lastState
AcceptedRelease == AcceptedChange /\ lastState' # bIsPressed
AcceptedPress == AcceptedChange /\ lastState' = bIsPressed
\* elapsed time the handler computes
Elapsed == USub(millis, lastStateChangeTime)

\* C1: an onInterrupt() invocation at most debounceDelay ms after the last
\* accepted transition changes none of lastState, lastStateChangeTime,
\* m_bIsPressed, m_bWasPressed, m_bWasLongPressed, m_bReset, whatever the
\* level read.
C1_DebounceSuppression ==
  [][(InterruptRan /\ Elapsed <= debounceDelay) => UNCHANGED codeVars]_vars

\* an edge to a level other than the accepted one, exactly debounceDelay ms
\* after the last accepted transition, was discarded
C1_Witness ==
  /\ op = "onInterrupt" /\ ret = FALSE
  /\ Elapsed = debounceDelay
  /\ pin # lastState

\* C2 as stated: every invocation more than debounceDelay ms after the last
\* accepted transition records the level read and the time, and sets
\* m_bIsPressed to (level = LOW).
C2_EveryLateInvocationAccepted ==
  [][(InterruptRan /\ Elapsed > debounceDelay)
       => /\ lastState' = pin'
          /\ lastStateChangeTime' = millis
          /\ m_bIsPressed' = (pin' = LOW)]_vars

\* C2 amended: an invocation more than debounceDelay ms after the last
\* accepted transition that reads a level other than the accepted one
\* records the level and the time and sets m_bIsPressed to (level = LOW) if
\* no reset is pending, to false if one is; every other invocation changes
\* nothing.
C2_LateChangeAccepted ==
  [][InterruptRan
       => IF Elapsed > debounceDelay /\ pin' # lastState
            THEN /\ lastState' = pin'
                 /\ lastStateChangeTime' = millis
                 /\ m_bIsPressed' = (~m_bReset /\ pin' = LOW)
            ELSE UNCHANGED codeVars]_vars

\* a press was accepted with no reset pending
C2_Witness ==
  /\ op = "onInterrupt" /\ ret = TRUE
  /\ lastStateChangeTime = millis
  /\ lastState = LOW /\ pin = LOW
  /\ m_bIsPressed

\* C3: a release accepted with no reset pending or in progress latches
\* m_bWasPressed; the first WasPressed() to return after it returns true, the
\* one after that returns false if no level change was accepted in between;
\* an accepted press never sets the latch.
C3_PressReleasePairing ==
  [][/\ (AcceptedRelease /\ ~m_bReset /\ pc \notin {"Reset_35", "Reset_36"})
          => m_bWasPressed'
     /\ (op' = "WasPressed" /\ phase = "fresh") => ret' = TRUE
     /\ (op' = "WasPressed" /\ phase = "read") => ret' = FALSE
     /\ AcceptedPress => (m_bWasPressed' => m_bWasPressed)]_vars

\* the second WasPressed() after a latched release has returned false
C3_Witness ==
  /\ op = "WasPressed" /\ ret = FALSE
  /\ phase = "done"
  /\ nWasPressedTrue >= 1

\* C4: WasPressed() returns true at most as often as releases are accepted,
\* WasLongPressed() at most as often as releases longer than longPressDelay
\* are accepted.
C4_AtMostOncePerRelease ==
  /\ nWasPressedTrue <= nRelease
  /\ nWasLongTrue <= nLongRelease

\* both accessors have returned true, once for each accepted release
C4_Witness ==
  /\ nWasPressedTrue >= 1 /\ nWasPressedTrue = nRelease
  /\ nWasLongTrue >= 1 /\ nWasLongTrue = nLongRelease

\* C5: after a release accepted with no reset pending, m_bWasPressed is set
\* and m_bWasLongPressed is set exactly if the release came more than
\* longPressDelay ms after the accepted press.
C5_LongPressThreshold ==
  [][(AcceptedRelease /\ ~m_bReset)
       => /\ m_bWasPressed'
          /\ m_bWasLongPressed' = (uptime - acceptedAt > longPressDelay)]_vars

\* a release more than longPressDelay ms after the press set both latches
C5_Witness ==
  /\ op = "onInterrupt" /\ ret = TRUE
  /\ lastState = HIGH
  /\ m_bWasPressed /\ m_bWasLongPressed
  /\ nLongRelease >= 1

\* C6: whenever WasLongPressed() returns true, the pin was continuously LOW
\* for more than longPressDelay ms before the release that set the latch.
C6_LongPressWasHeld ==
  (op = "WasLongPressed" /\ ret = TRUE) => longGenuine

\* C7: with a Reset() called and no level change accepted since, the reset
\* is pending; an invocation that accepts a level change then leaves
\* m_bIsPressed, m_bWasPressed, m_bWasLongPressed and m_bReset false,
\* one that discards its edge leaves the reset pending; an accepted change
\* with no reset pending is classified by its level and elapsed time.
C7_ResetSemantics ==
  [][/\ armed => m_bReset
     /\ (InterruptRan /\ armed)
          => IF lastState' # lastState
               THEN /\ ~m_bIsPressed' /\ ~m_bWasPressed'
                    /\ ~m_bWasLongPressed' /\ ~m_bReset'
               ELSE m_bReset' /\ armed'
     /\ (AcceptedChange /\ ~m_bReset)
          => /\ m_bIsPressed' = (lastState' = LOW)
             /\ AcceptedRelease => m_bWasPressed'
             /\ m_bWasLongPressed'
                  = (lastState' # LOW /\ Elapsed > longPressDelay)]_vars

\* a release longer than longPressDelay was accepted under a pending reset
\* and latched nothing
C7_Witness ==
  /\ op = "onInterrupt" /\ ret = TRUE
  /\ lastState = HIGH
  /\ nLongRelease >= 1 /\ acceptedAt = uptime
  /\ ~m_bWasPressed /\ ~m_bWasLongPressed /\ ~m_bIsPressed /\ ~m_bReset

\* C8: between the return of Reset() and the next accepted level change,
\* IsPressed(), WasPressed() and WasLongPressed() return false.
C8_ClearedAfterReset ==
  (sinceReset /\ op \in {"IsPressed", "WasPressed", "WasLongPressed"})
    => ret = FALSE

\* C9: a StateToggleTimer that is not started is on.
C9_NotStartedIsOn == ~HasStarted => IsOn

\* C10: Update(now) on a timer that is not started leaves it on and not
\* started.
C10_IdleUpdate ==
  [][(op' = "Update" /\ ~HasStarted) => (IsOn' /\ ~HasStarted')]_vars

\* Update() ran on a timer that is not started, after the clock advanced
C10_Witness ==
  /\ op = "Update"
  /\ ~HasStarted /\ IsOn
  /\ ticks >= 1

\* C11: while started, Update(now) flips IsOn() once and sets m_timer to now
\* exactly if now - m_timer (unsigned) is greater than m_duration; otherwise
\* it leaves IsOn() and m_timer alone.
C11_Periodicity ==
  [][\A now \in NowArgs :
       (Update(now) /\ HasStarted)
         => IF USub(now, m_timer) > m_duration
              THEN IsOn' = ~IsOn /\ m_timer' = now
              ELSE UNCHANGED <<m_bIsOn, m_timer>>]_vars

\* Start() at t0 with duration 50, Update(t0 + 51) flipped to off and
\* Update(t0 + 102) has just flipped back to on
C11_Witness ==
  /\ op = "Update"
  /\ HasStarted /\ IsOn
  /\ m_duration = 50
  /\ uptime = 102
  /\ m_timer = millis /\ timerSetAt = uptime

\* C12: HasStateChanged() returns true exactly if IsOn() differs from what
\* it was at the previous HasStateChanged() call (off before the first call),
\* it never changes IsOn(), and a call that directly follows another call
\* returns false.
C12_ChangeDetection ==
  [][op' = "HasStateChanged"
       => /\ ret' = (IsOn # lastSeenOn)
          /\ IsOn' = IsOn
          /\ (op = "HasStateChanged" => ret' = FALSE)]_vars

\* HasStateChanged() reported the flip to off of a started timer
C12_Witness ==
  /\ op = "HasStateChanged" /\ ret = TRUE
  /\ HasStarted /\ ~IsOn
  /\ m_bPreviousState = IsOn

\* C13: Start() from any state leaves the timer started, on and with m_timer
\* the clock t0 read by Start(), and no later Update(now) with
\* now - t0 <= m_duration flips the state before another operation moves
\* m_timer; Stop() from any state leaves the timer not started and on.
C13_StartStop ==
  [][/\ op' = "Start" => (HasStarted' /\ IsOn' /\ m_timer' = millis)
     /\ op' = "Stop" => (~HasStarted' /\ IsOn')
     /\ \A now \in NowArgs :
          (Update(now) /\ startedAt >= 0 /\ USub(now, startedAt) <= m_duration)
            => (IsOn' = IsOn /\ IsOn)]_vars

\* a timer restarted at least 51 ms after construction did not flip in
\* Update() 50 ms after the restart, with duration 50
C13_Witness ==
  /\ op = "Update"
  /\ startedAt >= 0 /\ HasStarted /\ IsOn
  /\ m_duration = 50
  /\ timerSetAt >= 51
  /\ uptime - timerSetAt = 50

\* C14: SetDuration(d) sets m_duration to d and leaves IsOn(), HasStarted(),
\* m_bPreviousState and m_timer alone; the Update(now) that follows it on a
\* started timer flips exactly if now - m_timer exceeds the new duration.
C14_SetDurationFrame ==
  [][/\ \A d \in Durations :
          SetDuration(d)
            => /\ m_duration' = d
               /\ UNCHANGED <<m_bIsOn, m_bHasStarted, m_bPreviousState, m_timer>>
     /\ \A now \in NowArgs :
          (op = "SetDuration" /\ Update(now) /\ HasStarted)
            => (IsOn' # IsOn) = (USub(now, m_timer) > m_duration)]_vars

\* SetDuration(0) ran 50 ms into the interval of a started timer and left
\* the start of the interval where it was
C14_Witness ==
  /\ op = "SetDuration"
  /\ HasStarted /\ IsOn
  /\ m_duration = 0
  /\ timerSetAt >= 0 /\ uptime - timerSetAt = 50
  /\ USub(millis, m_timer) = 50

\* C15: with e the true time elapsed since the stored timestamp was read
\* from the clock (e < 2^w), Update(millis()) flips a started timer exactly
\* if e > m_duration, onInterrupt() accepts a changed level exactly if
\* e > debounceDelay, and a release accepted with no reset pending is
\* latched as long exactly if e > longPressDelay, also when the clock has
\* wrapped since the timestamp was stored.
C15_WraparoundSafety ==
  [][/\ (Update(millis) /\ HasStarted /\ timerSetAt >= 0)
          => (IsOn' # IsOn) = (uptime - timerSetAt > m_duration)
     /\ (InterruptRan /\ pin' # lastState)
          => (lastState' # lastState) = (uptime - acceptedAt > debounceDelay)
     /\ (AcceptedRelease /\ ~m_bReset)
          => m_bWasLongPressed' = (uptime - acceptedAt > longPressDelay)]_vars

\* the clock wrapped after the press and after the timer's reference were
\* stored: the release was accepted as long and the timer had flipped, both
\* with now numerically below the stored timestamp
C15_Witness ==
  /\ op = "onInterrupt" /\ ret = TRUE
  /\ m_bWasLongPressed
  /\ millis < uptime
  /\ pinFell < uptime - millis
  /\ HasStarted /\ ~IsOn
  /\ m_duration = 50 /\ m_timer <= 50

\* C16 as stated: once started, with Update(millis()) called in every
\* iteration of the loop and no Start(), Stop() or SetDuration(), the timer
\* is again and again on and again and again off, whatever its duration.
C16_TogglesForever ==
  [](HasStarted => (<>IsOn /\ <>(~IsOn)))

\* C16 amended: the same for every duration smaller than 2^w minus the
\* longest gap between two Update() calls; with the largest unsigned long as
\* duration a started timer stays on for ever.
C16_TogglesBelowWrap ==
  /\ []((HasStarted /\ m_duration < ULongMod - MaxGap)
          => (<>IsOn /\ <>(~IsOn)))
  /\ []((HasStarted /\ m_duration = ULongMod - 1) => IsOn)

\* a timer with a quarter of the clock range as duration has flipped to off
\* after the clock wrapped
C16_Witness ==
  /\ op = "Update"
  /\ HasStarted /\ ~IsOn
  /\ m_duration = ULongMod \div 4
  /\ m_timer = millis
  /\ millis < ULongMod \div 4

\* C17: a press accepted with no reset pending leaves m_bWasLongPressed
\* false and m_bWasPressed as it was.
C17_PressCancelsLongLatch ==
  [][(AcceptedPress /\ ~m_bReset)
       => (~m_bWasLongPressed' /\ m_bWasPressed' = m_bWasPressed)]_vars

\* a long press was latched and never read by WasLongPressed(); the next
\* press has been accepted: the long latch is gone, m_bWasPressed is kept
C17_Witness ==
  /\ op = "onInterrupt" /\ ret = TRUE
  /\ lastState = LOW /\ m_bIsPressed
  /\ nLongRelease >= 1 /\ nWasLongTrue = 0 /\ nWasPressedTrue = 0
  /\ ~m_bWasLongPressed /\ m_bWasPressed

\* C20: in every reachable state, m_bIsPressed implies that the recorded
\* level is LOW and m_bWasLongPressed is false, and m_bWasLongPressed
\* implies that the recorded level is the released level.
C20_FlagConsistency ==
  /\ m_bIsPressed => (lastState = LOW /\ ~m_bWasLongPressed)
  /\ m_bWasLongPressed => lastState # bIsPressed

\* pressed again after a long press that WasLongPressed() never read
C20_Witness ==
  /\ m_bIsPressed /\ lastState = LOW /\ ~m_bWasLongPressed
  /\ nLongRelease >= 1 /\ nWasLongTrue = 0

\* C19: Reset() is never called and onInterrupt() runs on every pin edge;
\* in no reachable state has the pin been at the released level for more
\* than debounceDelay ms while IsPressed() returns true.
C19_IsPressedTracksPin ==
  (pin # bIsPressed /\ uptime - pinRose > debounceDelay) => ~m_bIsPressed

\* C18: an accessor call during which onInterrupt() accepted at most one
\* level change returns the value and leaves the flags that the atomic
\* accessor and that change give in one of their two orders; a call that
\* returns from its first statement is the atomic accessor.
C18_Linearizable ==
  [][/\ (pc # "idle" /\ pc' = "idle" /\ call.n <= 1)
          => Outcome(CurrentFlags', ret') \in Linearizations(pc, call)
     /\ (pc = "idle" /\ op' = "WasPressed")
          => Outcome(CurrentFlags', ret') = AtomicWasPressed(CurrentFlags)
     /\ (pc = "idle" /\ op' = "WasLongPressed")
          => Outcome(CurrentFlags', ret') = AtomicWasLongPressed(CurrentFlags)
    ]_vars

\* WasPressed() read the latch of a release, the next press was accepted
\* before it cleared the latch, and it returned true
C18_Witness ==
  /\ op = "WasPressed" /\ ret = TRUE /\ pc = "idle"
  /\ call.n = 1
  /\ nRelease = 1 /\ nWasPressedTrue = 1
  /\ ~m_bWasPressed /\ m_bIsPressed /\ lastState = bIsPressed
=============================================================================
